---- MODULE Spec2Model ----
(***************************************************************************)
(* Binomial real-options lattices of trees.py: base_instr,                 *)
(* internal_value_of_options, delay_option_value, print_tree and run.      *)
(*                                                                         *)
(* Numbers.  A Python/numpy float is modelled as an exact rational         *)
(* [n |-> numerator, d |-> denominator] in lowest terms with d > 0, plus   *)
(* the three IEEE-754 specials the code can produce: d = 0 with n = 1 is   *)
(* +inf, n = -1 is -inf and n = 0 is NaN.  Rounding error of binary        *)
(* floating point is not modelled: arithmetic on finite values is exact.   *)
(*                                                                         *)
(* np.exp is modelled on integer-valued arguments with base 2 in place of  *)
(* e (rates are measured in units of ln 2), which keeps every identity the *)
(* code depends on: Exp(0) = 1, Exp(x) * Exp(-x) = 1, Exp(x) > 0, and      *)
(* Exp(x) = Exp(-x) exactly when x = 0.                                    *)
(*                                                                         *)
(* Command-line tokens are sequences of one-character strings, converted   *)
(* by int() and float() as Python converts them.  docopt itself is an      *)
(* external library: the model starts from the arguments dictionary it     *)
(* hands to run().                                                         *)
(***************************************************************************)
EXTENDS Integers, Sequences, FiniteSets, TLC

VARIABLES arguments, pc, frame, dov, out, err, log

vars == <<arguments, pc, frame, dov, out, err, log>>

(* Largest period count drawn for <n>. *)
MaxPeriods == 2

----------------------------------------------------------------------------
(* Float arithmetic *)

Abs(x) == IF x < 0 THEN -x ELSE x

Sgn(x) == IF x > 0 THEN 1 ELSE IF x < 0 THEN -1 ELSE 0

RECURSIVE GCD(_, _)
GCD(a, b) == IF b = 0 THEN a ELSE GCD(b, a % b)

Norm(num, den) ==
    LET s == IF den < 0 THEN -1 ELSE 1
        g == GCD(Abs(num), Abs(den))
    IN  [n |-> (s * num) \div g, d |-> (s * den) \div g]

Rat(k) == [n |-> k, d |-> 1]

Zero == Rat(0)

One == Rat(1)

NaN == [n |-> 0, d |-> 0]

IsNaN(a) == a.d = 0 /\ a.n = 0

IsFinite(a) == a.d > 0

Neg(a) == [n |-> -a.n, d |-> a.d]

Add(a, b) ==
    IF IsNaN(a) \/ IsNaN(b) THEN NaN
    ELSE IF a.d = 0 /\ b.d = 0 THEN (IF a.n = b.n THEN a ELSE NaN)
    ELSE IF a.d = 0 THEN a
    ELSE IF b.d = 0 THEN b
    ELSE Norm(a.n * b.d + b.n * a.d, a.d * b.d)

Sub(a, b) == Add(a, Neg(b))

Mul(a, b) ==
    IF a.d = 0 \/ b.d = 0 THEN [n |-> Sgn(a.n) * Sgn(b.n), d |-> 0]
    ELSE Norm(a.n * b.n, a.d * b.d)

(* numpy float64 division: a zero divisor gives inf or NaN (with a         *)
(* RuntimeWarning), never an exception.                                    *)
Div(a, b) ==
    IF IsNaN(a) \/ IsNaN(b) THEN NaN
    ELSE IF a.d = 0 /\ b.d = 0 THEN NaN
    ELSE IF b.d = 0 THEN Zero
    ELSE IF a.d = 0 THEN [n |-> a.n * (IF b.n < 0 THEN -1 ELSE 1), d |-> 0]
    ELSE IF b.n = 0 THEN [n |-> Sgn(a.n), d |-> 0]
    ELSE Norm(a.n * b.d, a.d * b.n)

(* Python's a > b and a < b on floats: False whenever a NaN is involved. *)
Gt(a, b) ==
    IF IsNaN(a) \/ IsNaN(b) THEN FALSE
    ELSE IF a.d = 0 /\ b.d = 0 THEN a.n > b.n
    ELSE a.n * b.d > b.n * a.d

Lt(a, b) == Gt(b, a)

Exp(x) ==
    IF x.n >= 0 THEN [n |-> 2 ^ x.n, d |-> 1] ELSE [n |-> 1, d |-> 2 ^ (-x.n)]

----------------------------------------------------------------------------
(* int() and float() on command-line tokens *)

Digits == <<"0", "1", "2", "3", "4", "5", "6", "7", "8", "9">>

IsDigit(c) == \E k \in 1..Len(Digits) : Digits[k] = c

DigitVal(c) == (CHOOSE k \in 1..Len(Digits) : Digits[k] = c) - 1

RECURSIVE DigitsVal(_)
DigitsVal(s) ==
    IF Len(s) = 0 THEN 0
    ELSE 10 * DigitsVal(SubSeq(s, 1, Len(s) - 1)) + DigitVal(s[Len(s)])

HasSign(tok) == Len(tok) > 0 /\ tok[1] \in {"+", "-"}

Unsigned(tok) == IF HasSign(tok) THEN Tail(tok) ELSE tok

SignOf(tok) == IF HasSign(tok) /\ tok[1] = "-" THEN -1 ELSE 1

(* int(tok): an optional sign followed by one or more decimal digits. *)
ParseInt(tok) ==
    LET body == Unsigned(tok)
        ok   == Len(body) > 0 /\ \A k \in 1..Len(body) : IsDigit(body[k])
    IN  [ok |-> ok, val |-> IF ok THEN SignOf(tok) * DigitsVal(body) ELSE 0]

(* float(tok): an optional sign, then digits with at most one decimal      *)
(* point and at least one digit.                                           *)
ParseFloat(tok) ==
    LET body   == Unsigned(tok)
        points == {k \in 1..Len(body) : body[k] = "."}
        digs   == SelectSeq(body, IsDigit)
        ok     == /\ Cardinality(points) <= 1
                  /\ Len(digs) > 0
                  /\ Len(digs) + Cardinality(points) = Len(body)
        frac   == IF points = {} THEN 0
                  ELSE Len(body) - (CHOOSE k \in points : TRUE)
    IN  [ok |-> ok,
         val |-> IF ok THEN Norm(SignOf(tok) * DigitsVal(digs), 10 ^ frac)
                 ELSE NaN]

----------------------------------------------------------------------------
(* Lattices: a sequence of slices, each a sequence of floats.  Python's    *)
(* 0-based tree[i][j] is tree[i + 1][j + 1] here.                          *)

Node(tree, i, j) == tree[i + 1][j + 1]

(* range(k) for the loops "for i in range(periods)". *)
RangeLen(k) == IF k > 0 THEN k ELSE 0

(* The loop body without its first-node test: an up node for every s. *)
base_instr_emit_every(tmp, s, u, d) == Append(Append(tmp, Mul(s, u)), Mul(s, d))

(* The loop body with the up and down factors exchanged. *)
base_instr_emit_swapped(tmp, s, u, d) ==
    LET t1 == IF Len(tmp) = 0 THEN Append(tmp, Mul(s, d)) ELSE tmp
    IN  Append(t1, Mul(s, u))

(* base_instr, body of "for s in base_price[-1]". *)
base_instr_emit(tmp, s, u, d) ==
    LET t1 == IF Len(tmp) = 0 THEN Append(tmp, Mul(s, u)) ELSE tmp
    IN  Append(t1, Mul(s, d))

RECURSIVE base_instr_slice(_, _, _, _, _)
base_instr_slice(prev, k, tmp, u, d) ==
    IF k > Len(prev) THEN tmp
    ELSE base_instr_slice(prev, k + 1, base_instr_emit(tmp, prev[k], u, d), u, d)

RECURSIVE base_instr_loop(_, _, _, _)
base_instr_loop(tree, cnt, u, d) ==
    IF cnt = 0 THEN tree
    ELSE base_instr_loop(
             Append(tree, base_instr_slice(tree[Len(tree)], 1, <<>>, u, d)),
             cnt - 1, u, d)

base_instr(periods, base_price, volatility) ==
    LET u == Exp(volatility)
        d == Exp(Neg(volatility))
    IN  base_instr_loop(<<<<base_price>>>>, RangeLen(periods), u, d)

(* internal_value_of_options repeats the construction in its own code. *)
internal_value_emit(tmp, s, u, d) ==
    LET t1 == IF Len(tmp) = 0 THEN Append(tmp, Mul(s, u)) ELSE tmp
    IN  Append(t1, Mul(s, d))

RECURSIVE internal_value_slice(_, _, _, _, _)
internal_value_slice(prev, k, tmp, u, d) ==
    IF k > Len(prev) THEN tmp
    ELSE internal_value_slice(prev, k + 1,
                              internal_value_emit(tmp, prev[k], u, d), u, d)

RECURSIVE internal_value_loop(_, _, _, _)
internal_value_loop(tree, cnt, u, d) ==
    IF cnt = 0 THEN tree
    ELSE internal_value_loop(
             Append(tree, internal_value_slice(tree[Len(tree)], 1, <<>>, u, d)),
             cnt - 1, u, d)

(* The payoff without the floor at zero. *)
internal_value_payoff_unfloored(s, investment) == Sub(s, investment)

(* The payoff written back into node s. *)
internal_value_payoff(s, investment) ==
    IF Lt(Sub(s, investment), Zero) THEN Zero ELSE Sub(s, investment)

(* "for i in range(periods + 1)": only the first periods + 1 slices are    *)
(* rewritten, which is none of them when periods < 0.                      *)
internal_value_map(tree, periods, investment) ==
    [i \in 1..Len(tree) |->
        IF i <= RangeLen(periods + 1)
        THEN [j \in 1..Len(tree[i]) |-> internal_value_payoff(tree[i][j], investment)]
        ELSE tree[i]]

internal_value_of_options(periods, base_price, investment, volatility) ==
    LET u == Exp(volatility)
        d == Exp(Neg(volatility))
    IN  internal_value_map(
            internal_value_loop(<<<<base_price>>>>, RangeLen(periods), u, d),
            periods, investment)

(* delay_option_value *)

risk_neutral_q(rf, decline, volatility) ==
    LET u == Exp(volatility)
        d == Exp(Neg(volatility))
    IN  Div(Sub(Exp(Sub(rf, decline)), d), Sub(u, d))

(* The slices visited root first. *)
induction_range_forward(periods) ==
    [k \in 1..RangeLen(periods) |-> k - 1]

(* range(periods - 1, -1, -1) as the sequence of slice indices visited. *)
induction_range(periods) ==
    [k \in 1..RangeLen(periods) |-> periods - k]

(* The continuation value without discounting. *)
position_intern_val_undiscounted(q, up, down, rf) ==
    Add(Mul(q, up), Mul(Sub(One, q), down))

position_intern_val(q, up, down, rf) ==
    Mul(Add(Mul(q, up), Mul(Sub(One, q), down)), Exp(Neg(rf)))

(* The comparison the wrong way round. *)
delay_choose_smaller(piv, intern) == IF Lt(piv, intern) THEN piv ELSE intern

delay_choose(piv, intern) == IF Gt(piv, intern) THEN piv ELSE intern

(* The assignment landing one slice later. *)
delay_store_next_slice(war_opc, i, pos, v) ==
    [war_opc EXCEPT ![i + 2][pos + 1] = v]

delay_store(war_opc, i, pos, v) == [war_opc EXCEPT ![i + 1][pos + 1] = v]

(* print_tree: one row per node position of the last slice, one cell per   *)
(* slice; a slice without that position (IndexError) prints blanks.  The   *)
(* digits of a cell are not modelled, only which value it shows.           *)
print_tree(tree) ==
    [position \in 1..Len(tree[Len(tree)]) |->
        [x \in 1..Len(tree) |->
            IF position <= Len(tree[x])
            THEN [cell |-> "value", val |-> tree[x][position]]
            ELSE [cell |-> "blank", val |-> Zero]]]

----------------------------------------------------------------------------
(* Inputs *)

RECURSIVE NatTok(_)
NatTok(k) ==
    IF k < 10 THEN <<Digits[k + 1]>>
    ELSE Append(NatTok(k \div 10), Digits[(k % 10) + 1])

IntTok(k) == IF k < 0 THEN <<"-">> \o NatTok(-k) ELSE NatTok(k)

BadTok == <<"x">>

Commands == {"base_instrument", "internal_value", "delay_option_value"}

PeriodToks == {IntTok(k) : k \in -1..MaxPeriods} \cup {<<"1", ".", "5">>, BadTok}

IncomeToks == {<<"3">>, <<"1", ".", "5">>, BadTok}

VolatilityToks == {<<"0">>, <<"1">>, <<"-", "1">>, BadTok}

RateToks == {<<"0">>, <<"1">>, BadTok}

InvToks == {<<"2">>, <<"0", ".", "5">>, BadTok}

(* The dictionary docopt returns: which command was given, and the raw     *)
(* text of every positional argument.                                      *)
Arguments ==
    [cmd : Commands, n : PeriodToks, income : IncomeToks,
     volatility : VolatilityToks, rf : RateToks, inv : InvToks,
     decline : RateToks]

EmptyFrame == [name \in {} |-> Zero]

Bind(f, name, v) == (name :> v) @@ f

Bound(f, name) == name \in DOMAIN f

----------------------------------------------------------------------------
(* State: arguments is docopt's dictionary; pc the position in run();      *)
(* frame the local variables of run() bound so far; dov the local          *)
(* variables of the running delay_option_value call; out the rows          *)
(* print_tree has printed; err the exception that ended run(); log the     *)
(* history of node assignments made by the backward induction.             *)

Init ==
    /\ arguments \in Arguments
    /\ pc = "n"
    /\ frame = EmptyFrame
    /\ dov = EmptyFrame
    /\ out = <<>>
    /\ err = ""
    /\ log = <<>>

(* A conversion that swallows the failure and carries on with a default. *)
Convert_swallowing(res, name, next) ==
    /\ frame' = Bind(frame, name, res.val)
    /\ pc' = next
    /\ err' = err

(* x = conv(arguments[...]): binds x, or raises ValueError out of run(). *)
Convert(res, name, next) ==
    IF res.ok
    THEN /\ frame' = Bind(frame, name, res.val)
         /\ pc' = next
         /\ err' = err
    ELSE /\ frame' = frame
         /\ pc' = "raised"
         /\ err' = "ValueError"

run_n ==
    /\ pc = "n"
    /\ Convert(ParseInt(arguments.n), "n", "start_price")
    /\ UNCHANGED <<arguments, dov, out, log>>

run_start_price ==
    /\ pc = "start_price"
    /\ Convert(ParseFloat(arguments.income), "start_price", "volatility")
    /\ UNCHANGED <<arguments, dov, out, log>>

run_volatility ==
    /\ pc = "volatility"
    /\ Convert(ParseFloat(arguments.volatility), "volatility", "branch")
    /\ UNCHANGED <<arguments, dov, out, log>>

run_base_instrument ==
    /\ pc = "branch"
    /\ arguments.cmd = "base_instrument"
    /\ frame' = Bind(frame, "r_tree",
                     base_instr(frame.n, frame.start_price, frame.volatility))
    /\ pc' = "print"
    /\ UNCHANGED <<arguments, dov, out, err, log>>

run_internal_value_inv ==
    /\ pc = "branch"
    /\ arguments.cmd = "internal_value"
    /\ Convert(ParseFloat(arguments.inv), "inv", "iv_call")
    /\ UNCHANGED <<arguments, dov, out, log>>

run_internal_value ==
    /\ pc = "iv_call"
    /\ frame' = Bind(frame, "r_tree",
                     internal_value_of_options(frame.n, frame.start_price,
                                               frame.inv, frame.volatility))
    /\ pc' = "print"
    /\ UNCHANGED <<arguments, dov, out, err, log>>

run_delay_rf ==
    /\ pc = "branch"
    /\ arguments.cmd = "delay_option_value"
    /\ Convert(ParseFloat(arguments.rf), "rf", "dov_inv")
    /\ UNCHANGED <<arguments, dov, out, log>>

run_delay_inv ==
    /\ pc = "dov_inv"
    /\ Convert(ParseFloat(arguments.inv), "inv", "dov_decline")
    /\ UNCHANGED <<arguments, dov, out, log>>

run_delay_decline ==
    /\ pc = "dov_decline"
    /\ Convert(ParseFloat(arguments.decline), "decline", "dov_call")
    /\ UNCHANGED <<arguments, dov, out, log>>

(* delay_option_value up to the head of the outer loop. *)
delay_option_value_enter ==
    /\ pc = "dov_call"
    /\ LET tmp == internal_value_of_options(frame.n, frame.start_price,
                                            frame.inv, frame.volatility)
       IN  dov' = [periods  |-> frame.n,
                   rf       |-> frame.rf,
                   u        |-> Exp(frame.volatility),
                   d        |-> Exp(Neg(frame.volatility)),
                   q        |-> risk_neutral_q(frame.rf, frame.decline,
                                               frame.volatility),
                   tmp      |-> tmp,
                   war_opc  |-> tmp,
                   rng      |-> induction_range(frame.n),
                   it       |-> 1,
                   pos      |-> 0]
    /\ pc' = "induct"
    /\ UNCHANGED <<arguments, frame, out, err, log>>

(* One pass of the inner loop body: node pos of slice rng[it]. *)
delay_option_value_node ==
    /\ pc = "induct"
    /\ dov.it <= Len(dov.rng)
    /\ LET i    == dov.rng[dov.it]
           pos  == dov.pos
           up   == Node(dov.war_opc, i + 1, pos)
           down == Node(dov.war_opc, i + 1, pos + 1)
           piv  == position_intern_val(dov.q, up, down, dov.rf)
           v    == delay_choose(piv, Node(dov.tmp, i, pos))
           last == pos + 1 = Len(dov.war_opc[i + 1])
       IN  /\ dov' = [dov EXCEPT !.war_opc = delay_store(dov.war_opc, i, pos, v),
                                 !.it = IF last THEN dov.it + 1 ELSE dov.it,
                                 !.pos = IF last THEN 0 ELSE pos + 1]
           /\ log' = Append(log, [i |-> i, pos |-> pos, up |-> up, down |-> down])
    /\ UNCHANGED <<arguments, pc, frame, out, err>>

delay_option_value_return ==
    /\ pc = "induct"
    /\ dov.it > Len(dov.rng)
    /\ frame' = Bind(frame, "r_tree", dov.war_opc)
    /\ pc' = "print"
    /\ UNCHANGED <<arguments, dov, out, err, log>>

run_print_tree ==
    /\ pc = "print"
    /\ out' = print_tree(frame.r_tree)
    /\ pc' = "done"
    /\ UNCHANGED <<arguments, frame, dov, err, log>>

Next ==
    \/ run_n
    \/ run_start_price
    \/ run_volatility
    \/ run_base_instrument
    \/ run_internal_value_inv
    \/ run_internal_value
    \/ run_delay_rf
    \/ run_delay_inv
    \/ run_delay_decline
    \/ delay_option_value_enter
    \/ delay_option_value_node
    \/ delay_option_value_return
    \/ run_print_tree

Spec == Init /\ [][Next]_vars

----------------------------------------------------------------------------
(* Vocabulary of the properties *)

Returned(cmd) == arguments.cmd = cmd /\ Bound(frame, "r_tree")

Shape(tree, n) ==
    /\ Len(tree) = n + 1
    /\ \A i \in 0..n : Len(tree[i + 1]) = i + 1

RECURSIVE Pow(_, _)
Pow(x, k) == IF k = 0 THEN One ELSE Mul(x, Pow(x, k - 1))

(* a >= b and max(a, b) on finite values, by cross-multiplication. *)
Ge(a, b) == IsFinite(a) /\ IsFinite(b) /\ a.n * b.d >= b.n * a.d

MaxOf(a, b) == IF a.n * b.d >= b.n * a.d THEN a ELSE b

(* The lattices the pure functions return for the converted arguments. *)
PriceLattice == base_instr(frame.n, frame.start_price, frame.volatility)

IntrinsicLattice ==
    internal_value_of_options(frame.n, frame.start_price, frame.inv,
                              frame.volatility)

NodesOf(n) == {ij \in (0..n) \X (0..n) : ij[2] <= ij[1]}

----------------------------------------------------------------------------
(* C1: for a period count n >= 0 the lattice returned by base_instr,       *)
(* internal_value_of_options or delay_option_value has n + 1 slices and    *)
(* slice i has i + 1 nodes.                                                *)
C1_Shape ==
    (Bound(frame, "r_tree") /\ frame.n >= 0) => Shape(frame.r_tree, frame.n)

C1_Witness ==
    /\ Returned("delay_option_value")
    /\ frame.n = MaxPeriods
    /\ Len(frame.r_tree[MaxPeriods + 1]) = MaxPeriods + 1

(* C2: node j of slice i of the base_instr lattice is                      *)
(* basePrice * u^(i-j) * d^j, so node 0 is the pure up path and the last   *)
(* node the pure down path.                                                *)
C2_ClosedForm ==
    Returned("base_instrument") =>
        LET u == Exp(frame.volatility)
            d == Exp(Neg(frame.volatility))
        IN  \A ij \in NodesOf(frame.n) :
                Node(frame.r_tree, ij[1], ij[2]) =
                    Mul(Mul(frame.start_price, Pow(u, ij[1] - ij[2])),
                        Pow(d, ij[2]))

C2_Witness ==
    /\ Returned("base_instrument")
    /\ frame.n = MaxPeriods
    /\ frame.volatility = One
    /\ Node(frame.r_tree, 2, 0) = Mul(frame.start_price, Rat(4))
    /\ Node(frame.r_tree, 2, 1) = frame.start_price
    /\ Node(frame.r_tree, 2, 2) = Div(frame.start_price, Rat(4))

(* C3: for n >= 0 every node of the internal_value_of_options lattice is   *)
(* max(s - investment, 0) for the base_instr node s at the same place, and *)
(* so is >= 0.                                                             *)
C3_Intrinsic ==
    (Returned("internal_value") /\ frame.n >= 0) =>
        \A ij \in NodesOf(frame.n) :
            LET s == Node(PriceLattice, ij[1], ij[2])
                v == Node(frame.r_tree, ij[1], ij[2])
            IN  /\ v = MaxOf(Sub(s, frame.inv), Zero)
                /\ Ge(v, Zero)

C3_Witness ==
    /\ Returned("internal_value")
    /\ frame.n = MaxPeriods
    /\ \E ij \in NodesOf(frame.n) :
           /\ Node(PriceLattice, ij[1], ij[2]).n * frame.inv.d
                  < frame.inv.n * Node(PriceLattice, ij[1], ij[2]).d
           /\ Node(frame.r_tree, ij[1], ij[2]) = Zero
    /\ \E ij \in NodesOf(frame.n) : Node(frame.r_tree, ij[1], ij[2]).n > 0

(* C4: in the returned delay_option_value lattice W, for every slice        *)
(* i < periods and node j, W[i][j] is the larger of the discounted          *)
(* continuation (q * W[i+1][j] + (1-q) * W[i+1][j+1]) * exp(-rf) and the    *)
(* intrinsic value V[i][j], with the one q = (exp(rf - decline) - d)/(u - d)*)
(* at every node.  q exists when u # d.                                    *)
C4_Recurrence ==
    (Returned("delay_option_value") /\ frame.n >= 0
        /\ Exp(frame.volatility) # Exp(Neg(frame.volatility))) =>
        LET u == Exp(frame.volatility)
            d == Exp(Neg(frame.volatility))
            q == Div(Sub(Exp(Sub(frame.rf, frame.decline)), d), Sub(u, d))
            W == frame.r_tree
            V == IntrinsicLattice
        IN  \A ij \in NodesOf(frame.n - 1) :
                LET i == ij[1]
                    j == ij[2]
                    continuation ==
                        Mul(Add(Mul(q, Node(W, i + 1, j)),
                                Mul(Sub(One, q), Node(W, i + 1, j + 1))),
                            Exp(Neg(frame.rf)))
                IN  Node(W, i, j) = MaxOf(continuation, Node(V, i, j))

(* Some node keeps its intrinsic value although it is positive, another    *)
(* takes a larger continuation value.                                      *)
C4_Witness ==
    /\ Returned("delay_option_value")
    /\ frame.n = MaxPeriods
    /\ frame.volatility = One
    /\ \E ij \in NodesOf(frame.n - 1) :
           /\ Node(frame.r_tree, ij[1], ij[2]) = Node(IntrinsicLattice, ij[1], ij[2])
           /\ Node(frame.r_tree, ij[1], ij[2]).n > 0
    /\ \E ij \in NodesOf(frame.n - 1) :
           /\ Node(frame.r_tree, ij[1], ij[2]) # Node(IntrinsicLattice, ij[1], ij[2])
           /\ Ge(Node(frame.r_tree, ij[1], ij[2]), Node(IntrinsicLattice, ij[1], ij[2]))

(* C5: every node of the delay_option_value lattice is >= the node at the  *)
(* same place of the internal_value_of_options lattice.                    *)
C5_Dominance ==
    (Returned("delay_option_value") /\ frame.n >= 0) =>
        \A ij \in NodesOf(frame.n) :
            Ge(Node(frame.r_tree, ij[1], ij[2]),
               Node(IntrinsicLattice, ij[1], ij[2]))

(* The root is worth more than exercising at once. *)
C5_Witness ==
    /\ Returned("delay_option_value")
    /\ frame.n > 0
    /\ Node(IntrinsicLattice, 0, 0) = Zero
    /\ Node(frame.r_tree, 0, 0).n > 0

(* C6: slice periods of the delay_option_value lattice equals slice        *)
(* periods of the intrinsic-value lattice, and the backward induction      *)
(* never assigns a node of that slice.                                     *)
C6_Terminal ==
    (arguments.cmd = "delay_option_value" /\ Bound(dov, "war_opc")
        /\ frame.n >= 0) =>
        /\ dov.war_opc[frame.n + 1] = IntrinsicLattice[frame.n + 1]
        /\ Bound(frame, "r_tree") =>
               frame.r_tree[frame.n + 1] = IntrinsicLattice[frame.n + 1]
        /\ \A k \in 1..Len(log) : log[k].i # frame.n

C6_Witness ==
    /\ Returned("delay_option_value")
    /\ frame.n = MaxPeriods
    /\ Len(log) > 0
    /\ frame.r_tree # IntrinsicLattice
    /\ frame.r_tree[frame.n + 1] = IntrinsicLattice[frame.n + 1]

----------------------------------------------------------------------------
(* C7: with u = d, delay_option_value reports a domain error for the       *)
(* undefined risk-neutral probability: it neither starts the induction nor *)
(* returns a lattice.                                                      *)
C7_DomainError ==
    (arguments.cmd = "delay_option_value" /\ Bound(frame, "volatility")
        /\ Exp(frame.volatility) = Exp(Neg(frame.volatility))) =>
        /\ ~Bound(dov, "q")
        /\ ~Bound(frame, "r_tree")
        /\ out = <<>>

(* C8: a negative period count is rejected before any lattice is built,    *)
(* returned or printed.                                                    *)
C8_NegativeRejected ==
    (Bound(frame, "n") /\ frame.n < 0) =>
        /\ ~Bound(frame, "r_tree")
        /\ ~Bound(dov, "tmp")
        /\ out = <<>>

----------------------------------------------------------------------------
(* The arguments each command declares in the usage text, and the ones     *)
(* run() converts for it, in the order of conversion, with the position of *)
(* run() at which each is converted.                                       *)
Declared(cmd) ==
    IF cmd = "base_instrument" THEN {"n", "income", "volatility"}
    ELSE {"n", "income", "volatility", "rf", "inv", "decline"}

Converted(cmd) ==
    IF cmd = "base_instrument"
    THEN <<[arg |-> "n", at |-> "n"], [arg |-> "income", at |-> "start_price"],
           [arg |-> "volatility", at |-> "volatility"]>>
    ELSE IF cmd = "internal_value"
    THEN <<[arg |-> "n", at |-> "n"], [arg |-> "income", at |-> "start_price"],
           [arg |-> "volatility", at |-> "volatility"],
           [arg |-> "inv", at |-> "branch"]>>
    ELSE <<[arg |-> "n", at |-> "n"], [arg |-> "income", at |-> "start_price"],
           [arg |-> "volatility", at |-> "volatility"],
           [arg |-> "rf", at |-> "branch"], [arg |-> "inv", at |-> "dov_inv"],
           [arg |-> "decline", at |-> "dov_decline"]>>

Fails(arg) ==
    IF arg = "n" THEN ~ParseInt(arguments.n).ok
    ELSE ~ParseFloat(arguments[arg]).ok

NothingComputed ==
    /\ ~Bound(frame, "r_tree")
    /\ ~Bound(dov, "tmp")
    /\ out = <<>>

(* C9 as stated: if any argument the command declares fails conversion,    *)
(* no lattice is computed and nothing is printed.                          *)
C9_DeclaredArgs ==
    (\E arg \in Declared(arguments.cmd) : Fails(arg)) => NothingComputed

(* C9 amended: if an argument that run() converts for the command fails    *)
(* conversion, run() gets no further than that conversion, computes and    *)
(* prints nothing, and ends with ValueError.                               *)
C9_ConvertedArgs ==
    LET conv == Converted(arguments.cmd)
    IN  \A k \in 1..Len(conv) :
            Fails(conv[k].arg) =>
                /\ NothingComputed
                /\ pc \in {conv[m].at : m \in 1..k} \cup {"raised"}
                /\ pc = "raised" => err = "ValueError"

C9_Witness ==
    /\ arguments.cmd = "delay_option_value"
    /\ ParseInt(arguments.n).ok
    /\ ParseFloat(arguments.income).ok
    /\ ParseFloat(arguments.volatility).ok
    /\ ParseFloat(arguments.rf).ok
    /\ ParseFloat(arguments.inv).ok
    /\ Fails("decline")
    /\ pc = "raised"
    /\ err = "ValueError"
    /\ Bound(frame, "inv")

----------------------------------------------------------------------------
(* C10: the backward induction visits slices periods-1, ..., 0 in that     *)
(* order.  The two nodes read for node (i, j) hold their final values, no  *)
(* node of a later slice is assigned after a node of an earlier one, and   *)
(* every node of slices 0..periods-1 is assigned exactly once.             *)
Assigned(k) == <<log[k].i, log[k].pos>>

C10_Order ==
    (arguments.cmd = "delay_option_value" /\ Bound(dov, "war_opc")) =>
        /\ \A k \in 1..Len(log) :
               /\ log[k].up = Node(dov.war_opc, log[k].i + 1, log[k].pos)
               /\ log[k].down = Node(dov.war_opc, log[k].i + 1, log[k].pos + 1)
               /\ \A m \in 1..Len(log) : m > k => log[m].i <= log[k].i
               /\ \A m \in 1..Len(log) : m # k => Assigned(m) # Assigned(k)
               /\ \/ log[k].i + 1 = frame.n
                  \/ \A j \in 0..(log[k].i + 1) :
                         \E m \in 1..(k - 1) : Assigned(m) = <<log[k].i + 1, j>>
        /\ Len(log) > 0 => log[1].i = frame.n - 1
        /\ Bound(frame, "r_tree") =>
               /\ {Assigned(k) : k \in 1..Len(log)} = NodesOf(frame.n - 1)
               /\ frame.r_tree = dov.war_opc

C10_Witness ==
    /\ Returned("delay_option_value")
    /\ frame.n = MaxPeriods
    /\ Len(log) = Cardinality(NodesOf(MaxPeriods - 1))
    /\ log[1].i = MaxPeriods - 1
    /\ log[Len(log)].i = 0
    /\ \E k \in 1..Len(log) : log[k].up # Node(IntrinsicLattice, log[k].i + 1, log[k].pos)

====
